---- MODULE Spec2Model ----
(***************************************************************************)
(* Model of getting__started.py: the devto_etl flow.                       *)
(*   etl          fetches pages 1..pages one at a time (fetch_page),       *)
(*   to_dataframe concatenates the pages and selects eight columns,        *)
(*   save_csv     writes the frame to output_file.                         *)
(* fetch_page is a task with retries=3, retry_delay_seconds=[2, 5, 15]:    *)
(* the task engine re-runs the task body after ANY exception it raises,    *)
(* sleeping the scheduled delay first, and re-raises into the flow once    *)
(* the retries are used up.                                                *)
(***************************************************************************)
EXTENDS Integers, Sequences, FiniteSets, TLC

VARIABLES
    pages,        \* etl argument: number of pages to fetch
    per_page,     \* etl argument: page size passed through to the service
    prior_file,   \* content of output_file before the run (never changes)
    pc,           \* position of the flow
    page_number,  \* loop variable of etl
    raw_pages,    \* list of fetched pages
    invoked,      \* page arguments of the fetch_page calls made, in order
    run_count,    \* failed attempts of the current fetch_page call
    waits,        \* delays slept by the current fetch_page call, in order
    inflight,     \* pages whose GET has been sent and has not returned
    response,     \* outcome of the last GET that returned
    df,           \* frame returned by to_dataframe
    output_file,  \* content of the file at output_file
    error         \* exception that ended the run

vars == <<pages, per_page, prior_file, pc, page_number, raw_pages, invoked,
          run_count, waits, inflight, response, df, output_file, error>>

----------------------------------------------------------------------------
(* Bounds *)

MaxPages == 2
MaxPerPage == 2

----------------------------------------------------------------------------
(* Program constants *)

Retries == 3

\* Variant: a schedule whose third delay is wrong
RetryDelaySecondsShort == <<2, 5, 5>>

RetryDelaySeconds == <<2, 5, 15>>

Columns == <<"id", "title", "published_at", "url", "comments_count",
             "positive_reactions_count", "tag_list", "user.username">>

None == "None"

\* File contents: a missing file, or a sequence of lines of cells
NoFile == [exists |-> FALSE, lines |-> << >>]
OldFile == [exists |-> TRUE, lines |-> << <<"old">> >>]

NoResponse == [raised |-> FALSE, status |-> 0, parses |-> FALSE, body |-> << >>]
NoFrame == [built |-> FALSE, rows |-> << >>]

----------------------------------------------------------------------------
(* Articles the service may return.  A JSON object is a function from its  *)
(* keys to values; the value of "user" is itself an object.                *)

Full(k) ==
    [id |-> k, title |-> "t", published_at |-> "d", url |-> "u",
     comments_count |-> 7, positive_reactions_count |-> 9,
     tag_list |-> <<"a", "b">>, user |-> [username |-> "n", name |-> "N"]]

A1 == Full(1)
A2 == [id |-> 2, title |-> "t", description |-> "x", published_at |-> "d",
       url |-> "u", comments_count |-> 7, positive_reactions_count |-> 9,
       tag_list |-> <<"a", "b">>, user |-> [username |-> "n", name |-> "N"]]
A3 == [id |-> 3, published_at |-> "d", url |-> "u",
       comments_count |-> 7, positive_reactions_count |-> 9,
       tag_list |-> <<"a", "b">>, user |-> [username |-> "n", name |-> "N"]]
A4 == [id |-> 4, title |-> "t", published_at |-> "d", url |-> "u",
       comments_count |-> 7, positive_reactions_count |-> 9,
       tag_list |-> <<"a", "b">>, user |-> [name |-> "N"]]

\* A1, A2 are well formed (A2 has an extra field), A3 lacks title,
\* A4 has a user object without username
Articles == {A1, A2, A3, A4}


NestedKeys == {"user"}

SeqsUpTo(S, n) == UNION {[1..m -> S] : m \in 0..n}

\* What httpx.get can do: raise (no response), or return a response.
\* A 200 body is a JSON array of at most per_page articles (parses) or is
\* not JSON; a 500 carries a JSON array that raise_for_status keeps away.
Outcomes(k) ==
    {[raised |-> TRUE, status |-> 0, parses |-> FALSE, body |-> << >>]}
      \cup [raised : {FALSE}, status : {200}, parses : {TRUE}, body : SeqsUpTo(Articles, k)]
      \cup {[raised |-> FALSE, status |-> 200, parses |-> FALSE, body |-> << >>]}
      \cup {[raised |-> FALSE, status |-> 500, parses |-> TRUE, body |-> <<A1>>]}

----------------------------------------------------------------------------
(* fetch_page body, lines 15-20 *)

\* response.raise_for_status(): raises on a non-2xx status
RaiseForStatus(r) == r.status < 200 \/ r.status > 299

\* The exception the task body raises for an outcome of the GET, or None
Raised(r) ==
    IF r.raised THEN "NetworkError"
    ELSE IF RaiseForStatus(r) THEN "HttpError"
    ELSE IF ~r.parses THEN "DecodeError"
    ELSE None

\* Variant: a retry condition that lets only network failures through
ShouldRetryNetworkOnly(kind, n) == n < Retries /\ kind \in {"NetworkError", "HttpError"}

\* Variant: an off-by-one retry budget
ShouldRetryOnceMore(kind, n) == n <= Retries

\* Task engine: retries=3 with no retry condition, so every exception kind
\* is retried while fewer than Retries retries have been used.
ShouldRetry(kind, n) == n < Retries

\* The delay slept before retry n (1-based): the n-th entry of the schedule,
\* the last entry once the schedule is used up.
RetryDelay(n) ==
    RetryDelaySeconds[IF n < Len(RetryDelaySeconds) THEN n ELSE Len(RetryDelaySeconds)]

\* Variant: range(1, pages), the last page is never fetched
ExtractDoneEarly == page_number >= pages

\* for page_number in range(1, pages + 1): the loop is over
ExtractDone == page_number > pages

----------------------------------------------------------------------------
(* to_dataframe, lines 26-39 *)

RECURSIVE Concat(_)
Concat(ps) == IF ps = << >> THEN << >> ELSE Head(ps) \o Concat(Tail(ps))

\* Variant: pages combined last page first
RECURSIVE ConcatReversed(_)
ConcatReversed(ps) ==
    IF ps = << >> THEN << >> ELSE ConcatReversed(Tail(ps)) \o Head(ps)

CombinePagesReversed(raw_articles) == ConcatReversed(raw_articles)

\* line 26: [article for page in raw_articles for article in page]
CombinePages(raw_articles) == Concat(raw_articles)

\* json_normalize names a nested value by its path joined with "."
FlatKeys(a) ==
    (DOMAIN a \ NestedKeys)
      \cup UNION {{k \o "." \o s : s \in DOMAIN a[k]} : k \in DOMAIN a \cap NestedKeys}

FlatValue(a, c) ==
    IF c \in DOMAIN a \ NestedKeys
    THEN a[c]
    ELSE LET k == CHOOSE k \in DOMAIN a \cap NestedKeys :
                      \E s \in DOMAIN a[k] : k \o "." \o s = c
             s == CHOOSE s \in DOMAIN a[k] : k \o "." \o s = c
         IN  a[k][s]

\* A cell of a frame: <<v>> holds the value v, << >> is NaN (no value)
NaN == << >>

\* pd.json_normalize(records): one row per record, one column per flat key
\* that occurs in ANY record; a record without the key gets NaN there.
JsonNormalize(records) ==
    LET cols == UNION {FlatKeys(records[i]) : i \in 1..Len(records)}
    IN  [columns |-> cols,
         rows |-> [i \in 1..Len(records) |->
                      [c \in cols |-> IF c \in FlatKeys(records[i])
                                      THEN <<FlatValue(records[i], c)>>
                                      ELSE NaN]]]

ColumnSet == {Columns[i] : i \in 1..Len(Columns)}

\* Variant: a selection that never raises (reindex-like)
SelectRaisesNever(frame) == FALSE

\* Variant: a selection that also raises when any selected cell is NaN
SelectRaisesOnAnyNaN(frame) ==
    IF ColumnSet \subseteq frame.columns
    THEN \E i \in 1..Len(frame.rows) : \E c \in ColumnSet : frame.rows[i][c] = NaN
    ELSE TRUE

\* frame[[...]] raises KeyError when a selected label is not a column
SelectRaises(frame) == ~(ColumnSet \subseteq frame.columns)

\* frame[[...]]: the selected columns of every row, rows kept in order
Select(frame) ==
    [built |-> TRUE,
     rows |-> [i \in 1..Len(frame.rows) |-> [c \in ColumnSet |-> frame.rows[i][c]]]]

----------------------------------------------------------------------------
(* save_csv, line 44: df.to_csv(path, index=False) *)

IntColumns == {"id", "comments_count", "positive_reactions_count"}
ListColumns == {"tag_list"}

RECURSIVE Join(_)
Join(xs) ==
    IF xs = << >> THEN ""
    ELSE IF Len(xs) = 1 THEN "'" \o Head(xs) \o "'"
    ELSE "'" \o Head(xs) \o "', " \o Join(Tail(xs))

\* A column of integers that holds a NaN is a float column
IsFloatColumn(frame, c) ==
    c \in IntColumns /\ \E i \in 1..Len(frame.rows) : frame.rows[i][c] = NaN

\* The text of one cell: NaN is the empty string
CsvCell(frame, i, c) ==
    LET cell == frame.rows[i][c]
    IN  IF cell = NaN THEN ""
        ELSE IF c \in IntColumns
             THEN IF IsFloatColumn(frame, c)
                  THEN ToString(cell[1]) \o ".0" ELSE ToString(cell[1])
        ELSE IF c \in ListColumns THEN "[" \o Join(cell[1]) \o "]"
        ELSE cell[1]

\* The lines of the file: the header, then one line per row
ToCsv(frame) ==
    <<Columns>> \o
      [n \in 1..Len(frame.rows) |-> [j \in 1..Len(Columns) |-> CsvCell(frame, n, Columns[j])]]

\* Variant: the path opened in mode "a"
WriteFileAppend(old, lines) == [exists |-> TRUE, lines |-> old.lines \o lines]

\* The path is opened in mode "w": the old content is gone, whatever it was
WriteFile(old, lines) == [exists |-> TRUE, lines |-> lines]

\* The strict prefixes of a sequence of lines
StrictPrefixes(lines) == {SubSeq(lines, 1, k) : k \in 0..(Len(lines) - 1)}

----------------------------------------------------------------------------
(* etl, lines 49-61 *)

\* Variant: a fetch exception swallowed by the loop
AbortToSkipFetch(stage) == IF stage = "fetch" THEN "extract" ELSE "failed"

\* etl has no try/except: an exception raised by a stage leaves etl and the
\* flow run ends failed, whatever the stage
AbortTo(stage) == "failed"

Init ==
    /\ pages \in 0..MaxPages
    /\ per_page \in 1..MaxPerPage
    /\ prior_file \in {NoFile, OldFile}
    /\ output_file = prior_file
    /\ pc = "extract"
    /\ page_number = 1
    /\ raw_pages = << >>
    /\ invoked = << >>
    /\ run_count = 0
    /\ waits = << >>
    /\ inflight = {}
    /\ response = NoResponse
    /\ df = NoFrame
    /\ error = None

\* etl line 55: call fetch_page(page_number, ...); a new task run starts
FetchPageCall ==
    /\ pc = "extract"
    /\ ~ExtractDone
    /\ invoked' = Append(invoked, page_number)
    /\ run_count' = 0
    /\ waits' = << >>
    /\ pc' = "attempt"
    /\ UNCHANGED <<pages, per_page, prior_file, page_number, raw_pages,
                   inflight, response, df, output_file, error>>

\* fetch_page line 18: the GET is sent and the task blocks on it
HttpGetSend ==
    /\ pc = "attempt"
    /\ inflight' = inflight \cup {page_number}
    /\ pc' = "await"
    /\ UNCHANGED <<pages, per_page, prior_file, page_number, raw_pages,
                   invoked, run_count, waits, response, df, output_file, error>>

\* lines 18-20 succeed: the body is returned and appended, the loop advances
FetchPageReturn ==
    /\ pc = "await"
    /\ \E r \in Outcomes(per_page) :
        /\ Raised(r) = None
        /\ response' = r
        /\ raw_pages' = Append(raw_pages, r.body)
    /\ inflight' = inflight \ {page_number}
    /\ page_number' = page_number + 1
    /\ pc' = "extract"
    /\ UNCHANGED <<pages, per_page, prior_file, invoked, run_count, waits,
                   df, output_file, error>>

\* lines 18-20 raise and a retry is left: sleep the scheduled delay, re-run
FetchPageRetry ==
    /\ pc = "await"
    /\ \E r \in Outcomes(per_page) :
        /\ Raised(r) # None
        /\ ShouldRetry(Raised(r), run_count)
        /\ response' = r
    /\ inflight' = inflight \ {page_number}
    /\ run_count' = run_count + 1
    /\ waits' = Append(waits, RetryDelay(run_count + 1))
    /\ pc' = "attempt"
    /\ UNCHANGED <<pages, per_page, prior_file, page_number, raw_pages,
                   invoked, df, output_file, error>>

\* lines 18-20 raise and no retry is left: the exception leaves etl
FetchPageFail ==
    /\ pc = "await"
    /\ \E r \in Outcomes(per_page) :
        /\ Raised(r) # None
        /\ ~ShouldRetry(Raised(r), run_count)
        /\ response' = r
        /\ error' = Raised(r)
    /\ inflight' = inflight \ {page_number}
    /\ run_count' = run_count + 1
    /\ pc' = AbortTo("fetch")
    /\ UNCHANGED <<pages, per_page, prior_file, page_number, raw_pages,
                   invoked, waits, df, output_file>>

\* etl line 58: to_dataframe returns the frame
ToDataframe ==
    /\ pc = "extract"
    /\ ExtractDone
    /\ ~SelectRaises(JsonNormalize(CombinePages(raw_pages)))
    /\ df' = Select(JsonNormalize(CombinePages(raw_pages)))
    /\ pc' = "load"
    /\ UNCHANGED <<pages, per_page, prior_file, page_number, raw_pages,
                   invoked, run_count, waits, inflight, response,
                   output_file, error>>

\* etl line 58: the column selection raises, the exception leaves etl
ToDataframeRaises ==
    /\ pc = "extract"
    /\ ExtractDone
    /\ SelectRaises(JsonNormalize(CombinePages(raw_pages)))
    /\ error' = "MissingFieldError"
    /\ pc' = AbortTo("transform")
    /\ UNCHANGED <<pages, per_page, prior_file, page_number, raw_pages,
                   invoked, run_count, waits, inflight, response, df,
                   output_file>>

\* etl line 61: to_csv opens the path for writing (truncating it), writes
\* every line and closes; the preview is printed and etl returns
SaveCsv ==
    /\ pc = "load"
    /\ output_file' = WriteFile(output_file, ToCsv(df))
    /\ pc' = "done"
    /\ UNCHANGED <<pages, per_page, prior_file, page_number, raw_pages,
                   invoked, run_count, waits, inflight, response, df, error>>

\* etl line 61: opening the path fails (permission): nothing is touched
SaveCsvOpenFails ==
    /\ pc = "load"
    /\ error' = "IoError"
    /\ pc' = AbortTo("load")
    /\ UNCHANGED <<pages, per_page, prior_file, page_number, raw_pages,
                   invoked, run_count, waits, inflight, response, df,
                   output_file>>

\* etl line 61: the path was opened (and truncated) and a write fails
\* (disk full): the file is left with the lines written so far
SaveCsvWriteFails ==
    /\ pc = "load"
    /\ \E written \in StrictPrefixes(ToCsv(df)) :
         output_file' = WriteFile(output_file, written)
    /\ error' = "IoError"
    /\ pc' = AbortTo("load")
    /\ UNCHANGED <<pages, per_page, prior_file, page_number, raw_pages,
                   invoked, run_count, waits, inflight, response, df>>

Next ==
    \/ FetchPageCall
    \/ HttpGetSend
    \/ FetchPageReturn
    \/ FetchPageRetry
    \/ FetchPageFail
    \/ ToDataframe
    \/ ToDataframeRaises
    \/ SaveCsv
    \/ SaveCsvOpenFails
    \/ SaveCsvWriteFails

Spec == Init /\ [][Next]_vars

----------------------------------------------------------------------------
(* Vocabulary of the properties, defined without the operators above *)

RECURSIVE SumLen(_)
SumLen(ps) == IF ps = << >> THEN 0 ELSE Len(Head(ps)) + SumLen(Tail(ps))

\* The i-th record counting through the pages in page order
RECURSIVE Nth(_, _)
Nth(ps, i) ==
    IF i <= Len(Head(ps)) THEN Head(ps)[i] ELSE Nth(Tail(ps), i - Len(Head(ps)))

HasField(a, c) ==
    IF c = "user.username"
    THEN "user" \in DOMAIN a /\ "username" \in DOMAIN a["user"]
    ELSE c \in DOMAIN a

FieldOf(a, c) == IF c = "user.username" THEN a["user"]["username"] ELSE a[c]

RequiredFields ==
    {"id", "title", "published_at", "url", "comments_count",
     "positive_reactions_count", "tag_list", "user.username"}

WellFormed(a) == \A c \in RequiredFields : HasField(a, c)

AllWellFormed(ps) ==
    \A p \in 1..Len(ps) : \A j \in 1..Len(ps[p]) : WellFormed(ps[p][j])

FetchErrors == {"NetworkError", "HttpError", "DecodeError"}

\* to_dataframe has been called
TransformRan ==
    \/ pc \in {"load", "done"}
    \/ pc = "failed" /\ error \in {"MissingFieldError", "IoError"}

\* The last GET that returned gave a 2xx response with a JSON body
GotPage == ~response.raised /\ response.status = 200 /\ response.parses

\* The last GET that returned gave a 2xx response whose body is not JSON
GotUndecodable == ~response.raised /\ response.status = 200 /\ ~response.parses

\* The last GET that returned failed, in whichever way
GotFailure ==
    \/ response.raised
    \/ ~response.raised /\ response.status = 500
    \/ GotUndecodable

Schedule(n) == SubSeq(<<2, 5, 15>>, 1, n)

----------------------------------------------------------------------------
\* C1: fetch_page is called with the page indices 1, 2, ... in that order,
\* never more than pages of them, each call that returned appended exactly
\* one page, and once the loop is over (to_dataframe has been called) the
\* calls were exactly 1..pages and raw_pages holds exactly pages pages.
C1_FetchOrder ==
    /\ invoked = [i \in 1..Len(invoked) |-> i]
    /\ Len(invoked) <= pages
    /\ Len(raw_pages) \in {Len(invoked), Len(invoked) - 1}
    /\ pc = "extract" => Len(raw_pages) = Len(invoked)
    /\ TransformRan => Len(invoked) = pages /\ Len(raw_pages) = pages

C1_Witness ==
    pc = "load" /\ pages = 2 /\ invoked = <<1, 2>> /\ Len(raw_pages) = 2

\* C2: when every record given to to_dataframe is well formed, the frame it
\* returns has sum(len(page)) rows and row i holds the eight field values of
\* the i-th record in page-then-within-page order.
C2_RowsInOrder ==
    (df.built /\ AllWellFormed(raw_pages)) =>
        /\ Len(df.rows) = SumLen(raw_pages)
        /\ \A i \in 1..Len(df.rows) :
             /\ DOMAIN df.rows[i] = RequiredFields
             /\ \A c \in RequiredFields :
                  df.rows[i][c] = <<FieldOf(Nth(raw_pages, i), c)>>

C2_Witness ==
    df.built /\ raw_pages = << <<A2, A1>>, <<A1>> >>

\* C3 as claimed: once to_dataframe has been called on pages in which some
\* record lacks a required field, the run has failed with the missing-field
\* error, no frame exists and the file is untouched.
C3_Original ==
    (TransformRan /\ ~AllWellFormed(raw_pages)) =>
        /\ pc = "failed" /\ error = "MissingFieldError"
        /\ ~df.built
        /\ output_file = prior_file

\* C3 amended: to_dataframe fails with the missing-field error exactly when
\* some required field is lacked by EVERY record (then no frame exists and
\* the file is untouched); otherwise it returns a frame in which a record
\* that lacks a field has NaN in that column.
C3_Amended ==
    TransformRan =>
        LET n == SumLen(raw_pages)
            lackedByAll == \E c \in RequiredFields :
                              \A i \in 1..n : ~HasField(Nth(raw_pages, i), c)
        IN  /\ lackedByAll <=> (pc = "failed" /\ error = "MissingFieldError")
            /\ lackedByAll => ~df.built /\ output_file = prior_file
            /\ ~lackedByAll =>
                 /\ df.built /\ Len(df.rows) = n
                 /\ \A i \in 1..n : \A c \in RequiredFields :
                      (df.rows[i][c] = << >>) <=> ~HasField(Nth(raw_pages, i), c)

C3_Witness ==
    /\ pc = "failed" /\ error = "MissingFieldError"
    /\ raw_pages = << <<A4>>, <<A4, A4>> >>

\* C4 as claimed: an unparseable body is fatal on its first occurrence, so
\* whenever the last response was undecodable the run has failed.
C4_Original ==
    GotUndecodable => pc = "failed" /\ error = "DecodeError"

\* C4 amended: every failure of a fetch attempt, a DecodeError included, is
\* retried while retries are left; any kind is fatal only on the fourth
\* failed attempt of the call.
C4_Amended ==
    GotFailure =>
        IF run_count <= 3
        THEN pc \in {"attempt", "await"} /\ error = None
        ELSE pc = "failed" /\ error \in FetchErrors /\ run_count = 4

C4_Witness ==
    GotUndecodable /\ pc = "attempt" /\ run_count = 1 /\ waits = <<2>>

\* C5: a fetch_page call makes at most four attempts; the waits before the
\* retries are 2, 5, 15 in that order; the fourth failure ends the run with
\* the error and nothing is sent after it.
C5_RetryPolicy ==
    /\ run_count <= 4
    /\ pc \in {"attempt", "await"} => run_count <= 3
    /\ waits = Schedule(IF run_count < 3 THEN run_count ELSE 3)
    /\ run_count = 4 =>
         pc = "failed" /\ error \in FetchErrors /\ inflight = {}
    /\ (pc = "failed" /\ error \in FetchErrors) => run_count = 4

C5_Witness ==
    pc = "failed" /\ run_count = 4 /\ waits = <<2, 5, 15>> /\ page_number = 2

\* C6: when a fetch_page call has returned after k < 4 failed attempts, the
\* page appended is the body of the successful response, no error is set,
\* the loop has moved to the next page, and the waits are the first k
\* entries of 2, 5, 15.
C6_RecoveredFetch ==
    (pc = "extract" /\ Len(invoked) >= 1) =>
        /\ run_count < 4
        /\ GotPage
        /\ raw_pages[Len(raw_pages)] = response.body
        /\ Len(raw_pages) = Len(invoked)
        /\ error = None
        /\ page_number = invoked[Len(invoked)] + 1
        /\ waits = Schedule(run_count)

C6_Witness ==
    /\ pc = "extract" /\ run_count = 2 /\ waits = <<2, 5>>
    /\ raw_pages = << <<A1, A2>> >> /\ pages = 2

\* C7 as claimed: in a failed run the file is untouched or holds a complete
\* table.
C7_Original ==
    pc = "failed" =>
        \/ output_file = prior_file
        \/ /\ df.built /\ output_file.exists
           /\ Len(output_file.lines) = 1 + Len(df.rows)

\* C7 amended: an error ends the run at once in the failed state with no
\* request in flight; after a fetch failure no later page was fetched, no
\* frame exists and the file is untouched; after a transform failure no
\* frame exists and the file is untouched; after a write failure the file
\* is untouched or truncated to a leading part of the table's lines.
C7_Amended ==
    /\ error # None <=> pc = "failed"
    /\ pc = "failed" =>
         /\ inflight = {}
         /\ error \in FetchErrors =>
              /\ ~df.built /\ output_file = prior_file
              /\ Len(invoked) = page_number
              /\ Len(raw_pages) = page_number - 1
         /\ error = "MissingFieldError" =>
              /\ ~df.built /\ output_file = prior_file
              /\ Len(raw_pages) = pages
         /\ error = "IoError" =>
              /\ df.built
              /\ \/ output_file = prior_file
                 \/ /\ output_file.exists
                    /\ Len(output_file.lines) <= Len(df.rows)
                    /\ \A k \in 1..Len(output_file.lines) :
                         /\ k = 1 => output_file.lines[k] = Columns
                         /\ k > 1 => output_file.lines[k][1] =
                                       ToString(Nth(raw_pages, k - 1)["id"])

C7_Witness ==
    /\ pc = "failed" /\ error = "IoError" /\ prior_file = OldFile
    /\ Len(df.rows) = 3 /\ Len(output_file.lines) = 2

\* C8: after a successful run the file is the header line followed by one
\* line per article of the pages fetched, in fetch order, whatever the file
\* held before.
C8_OutputFile ==
    pc = "done" =>
        /\ Len(raw_pages) = pages
        /\ output_file.exists
        /\ Len(output_file.lines) = 1 + SumLen(raw_pages)
        /\ output_file.lines[1] =
             <<"id", "title", "published_at", "url", "comments_count",
               "positive_reactions_count", "tag_list", "user.username">>
        /\ \A i \in 1..SumLen(raw_pages) :
             LET a == Nth(raw_pages, i)
                 line == output_file.lines[i + 1]
             IN  /\ Len(line) = 8
                 /\ line[1] = ToString(a["id"])
                 /\ line[2] = IF HasField(a, "title") THEN a["title"] ELSE ""
                 /\ line[8] = IF HasField(a, "user.username")
                              THEN a["user"]["username"] ELSE ""

C8_Witness ==
    /\ pc = "done" /\ prior_file = OldFile
    /\ raw_pages = << <<A1, A2>>, <<A1>> >>
    /\ Len(output_file.lines) = 4

\* C9: at most one GET is in flight; a GET for page k is in flight only when
\* pages 1..k-1 have all been fetched; the frame exists only when all pages
\* have been fetched and nothing is in flight; the file is written only when
\* the frame exists.
C9_Sequential ==
    /\ Cardinality(inflight) <= 1
    /\ \A p \in inflight : p = Len(raw_pages) + 1 /\ p <= pages /\ pc = "await"
    /\ pc \in {"attempt", "await"} =>
         page_number = Len(raw_pages) + 1 /\ invoked[Len(invoked)] = page_number
    /\ TransformRan => Len(raw_pages) = pages /\ inflight = {}
    /\ df.built => Len(raw_pages) = pages /\ inflight = {}
    /\ output_file # prior_file => df.built /\ pc \in {"done", "failed"}

C9_Witness ==
    pc = "await" /\ inflight = {2} /\ run_count = 1 /\ Len(raw_pages) = 1

\* C10: when the pages fetched hold no record at all, to_dataframe fails
\* with the missing-field error, no frame exists and the file is untouched.
C10_NoRecords ==
    (SumLen(raw_pages) = 0 /\ (TransformRan \/ df.built \/ pc = "done")) =>
        /\ pc = "failed" /\ error = "MissingFieldError"
        /\ ~df.built
        /\ output_file = prior_file

C10_Witness ==
    /\ pc = "failed" /\ error = "MissingFieldError"
    /\ pages = 2 /\ raw_pages = << << >>, << >> >>

====
